---- MODULE Spec2Model ----
(***************************************************************************)
(* Model of the documentation-macro migrators of docs/documentation-macros *)
(*   apply_doc_params.py, apply_doc_type_params.py, apply_hm_signature.py, *)
(*   migrate_hm_signature.py.                                              *)
(*                                                                         *)
(* Text is modelled at two grains.  Descriptions, names and generic lists  *)
(* are sequences of one-character strings, so quoting, escaping, stripping *)
(* and bracket-depth scanning are computed character by character.  A file *)
(* buffer is a sequence of tokens (records [t, k, name, text, n]): t is    *)
(* the kind of text, k the script it belongs to, name and text its         *)
(* payload, n its length in characters; the newline is a token of its own  *)
(* ("NL"), so which text shares a line is part of the state.               *)
(***************************************************************************)
EXTENDS Integers, Sequences, FiniteSets, TLC

VARIABLES
    phase,               \* position of the run being modelled
    \* one block: entry parser and correlator
    ordered_doc_params,  \* the (name, raw description) entries of one block
    generic_names,       \* names of the following declaration's generics
    final_args,          \* the rendered argument list (args / final_args)
    doc_ptr,             \* the correlator's forward cursor
    \* one declaration: scanner and splitter
    items,               \* the generic parameters as declared
    after_fn_name,       \* the text behind the function's name
    generics_text,       \* what the scanner cut out of it
    \* one invocation of a script over a batch of files
    script,              \* which script's main() runs
    files,               \* the traversal's files, in the order it yields them
    next_file,           \* how many of them main() has passed to process_file
    handled,             \* files read and transformed
    skipped,             \* files skipped with a notice
    \* one file through process_file
    kind,                \* which apply script processes the buffer
    pieces,              \* how many pieces of text the file was made of
    content,             \* the file's text
    prev,                \* its text before the latest run
    runs,                \* how many times the script has run on it
    changed              \* whether the latest run wrote the file ("Updated")

blockVars == <<ordered_doc_params, generic_names, final_args, doc_ptr>>
scanVars == <<items, after_fn_name, generics_text>>
batchVars == <<script, files, next_file, handled, skipped>>
bufVars == <<kind, pieces, content, prev, runs, changed>>
vars == <<phase, blockVars, scanVars, batchVars, bufVars>>

----------------------------------------------------------------------------
(* Characters and small text helpers                                       *)

QUOTE == "\""
BSLASH == "\\"
APOS == "'"
SPACE == " "

Self == <<"s", "e", "l", "f">>
Undocumented == <<"U", "n", "d", "o", "c", "u", "m", "e", "n", "t", "e", "d">>

\* str.strip(): drop leading and trailing whitespace.
RECURSIVE LStrip(_)
LStrip(s) == IF s # <<>> /\ Head(s) = SPACE THEN LStrip(Tail(s)) ELSE s

RECURSIVE RStrip(_)
RStrip(s) ==
    IF s # <<>> /\ s[Len(s)] = SPACE THEN RStrip(SubSeq(s, 1, Len(s) - 1)) ELSE s

Strip(s) == RStrip(LStrip(s))

\* g_name.lstrip("'")
RECURSIVE LStripApos(_)
LStripApos(s) == IF s # <<>> /\ Head(s) = APOS THEN LStripApos(Tail(s)) ELSE s

StartsWithApos(s) == s # <<>> /\ Head(s) = APOS

\* desc.replace('"', '\\"')
RECURSIVE EscapeQuotes(_)
EscapeQuotes(s) ==
    IF s = <<>> THEN <<>>
    ELSE (IF Head(s) = QUOTE THEN <<BSLASH, QUOTE>> ELSE <<Head(s)>>)
         \o EscapeQuotes(Tail(s))

\* f'"{desc}"'
Quoted(text) == <<QUOTE>> \o text \o <<QUOTE>>

\* f'("{d_name}", "{d_desc}")'
Pair(name, text) ==
    <<"(">> \o Quoted(name) \o <<",", SPACE>> \o Quoted(text) \o <<")">>

----------------------------------------------------------------------------
(* apply_doc_params.py: the argument list of one Parameters block          *)

\* The mutant drops the test for the receiver.
RECURSIVE DocParamsArgsKeepSelf(_)
DocParamsArgsKeepSelf(es) ==
    IF es = <<>> THEN <<>>
    ELSE <<Quoted(EscapeQuotes(Strip(Head(es).raw)))>>
         \o DocParamsArgsKeepSelf(Tail(es))

RECURSIVE DocParamsArgsFrom(_)
DocParamsArgsFrom(es) ==
    IF es = <<>> THEN <<>>
    ELSE LET name == Head(es).name
             desc == Strip(Head(es).raw)
         IN  IF name = Self
             THEN DocParamsArgsFrom(Tail(es))
             ELSE <<Quoted(EscapeQuotes(desc))>> \o DocParamsArgsFrom(Tail(es))

DocParamsArgs(es) == DocParamsArgsFrom(es)

----------------------------------------------------------------------------
(* apply_doc_type_params.py: the correlator                                *)

\* doc_params[name] = desc: a dict, so a later entry of the same name wins.
InDocParams(es, name) == \E i \in 1..Len(es) : es[i].name = name

DocParamsGet(es, name) ==
    LET last == CHOOSE i \in 1..Len(es) :
                    /\ es[i].name = name
                    /\ \A j \in (i + 1)..Len(es) : es[j].name # name
    IN  Strip(es[last].raw)

\* The mutant has no lookup by name: an entry out of declaration order is
\* only ever paired positionally.
CorrelateStepPositional(es, g_name, ptr) ==
    LET clean_g == LStripApos(g_name)
        has     == ptr < Len(es)
        d_name  == es[ptr + 1].name
        d_desc  == Strip(es[ptr + 1].raw)
    IN  IF has /\ (d_name = g_name \/ d_name = clean_g)
        THEN [arg |-> Quoted(d_desc), ptr |-> ptr + 1]
        ELSE IF ~StartsWithApos(g_name) /\ has
        THEN [arg |-> Pair(d_name, d_desc), ptr |-> ptr + 1]
        ELSE [arg |-> Quoted(Undocumented), ptr |-> ptr]

\* One iteration of `for g_name in generic_names`: the argument appended and
\* the cursor after it.
CorrelateStep(es, g_name, ptr) ==
    LET clean_g == LStripApos(g_name)
        has     == ptr < Len(es)
        d_name  == es[ptr + 1].name
        d_desc  == Strip(es[ptr + 1].raw)
    IN  IF has /\ (d_name = g_name \/ d_name = clean_g)
        THEN [arg |-> Quoted(d_desc), ptr |-> ptr + 1]
        ELSE IF InDocParams(es, g_name)
        THEN [arg |-> Quoted(DocParamsGet(es, g_name)), ptr |-> ptr]
        ELSE IF InDocParams(es, clean_g)
        THEN [arg |-> Quoted(DocParamsGet(es, clean_g)), ptr |-> ptr]
        ELSE IF ~StartsWithApos(g_name) /\ has
        THEN [arg |-> Pair(d_name, d_desc), ptr |-> ptr + 1]
        ELSE [arg |-> Quoted(Undocumented), ptr |-> ptr]

RECURSIVE CorrelateFrom(_, _, _, _)
CorrelateFrom(es, gs, ptr, acc) ==
    IF gs = <<>> THEN [args |-> acc, ptr |-> ptr]
    ELSE LET r == CorrelateStep(es, Head(gs), ptr)
         IN  CorrelateFrom(es, Tail(gs), r.ptr, Append(acc, r.arg))

Correlate(es, gs) == CorrelateFrom(es, gs, 0, <<>>)

----------------------------------------------------------------------------
(* apply_doc_type_params.py: declaration scanner and generic-list splitter *)

StartsWith(s, c) == s # <<>> /\ Head(s) = c
EndsWith(s, c) == s # <<>> /\ s[Len(s)] = c

\* re.search(r'^\s*<', after_fn_name)
HasGenerics(text) == StartsWith(LStrip(text), "<")

\* The depth loop of replacement(): it starts at the match's start, adds
\* every character to generics_text and stops once depth is back to 0.
RECURSIVE ScanGenericsFrom(_, _, _, _)
ScanGenericsFrom(text, i, depth, acc) ==
    IF i > Len(text) THEN acc
    ELSE LET char == text[i]
             d == IF char = "<" THEN depth + 1
                  ELSE IF char = ">" THEN depth - 1 ELSE depth
         IN  IF d = 0 THEN Append(acc, char)
             ELSE ScanGenericsFrom(text, i + 1, d, Append(acc, char))

ScanGenerics(text) == ScanGenericsFrom(text, 1, 0, <<>>)

\* The splitting loop of extract_generics(): a comma at depth 0 ends an
\* item; what is left at the end is an item if it is not blank.
RECURSIVE SplitFrom(_, _, _, _, _)
SplitFrom(text, i, depth, current, params) ==
    IF i > Len(text)
    THEN IF Strip(current) # <<>> THEN Append(params, Strip(current)) ELSE params
    ELSE LET char == text[i]
         IN  IF char = "<"
             THEN SplitFrom(text, i + 1, depth + 1, Append(current, char), params)
             ELSE IF char = ">"
             THEN SplitFrom(text, i + 1, depth - 1, Append(current, char), params)
             ELSE IF char = "," /\ depth = 0
             THEN SplitFrom(text, i + 1, depth, <<>>, Append(params, Strip(current)))
             ELSE SplitFrom(text, i + 1, depth, Append(current, char), params)

SplitTopLevel(text) == SplitFrom(text, 1, 0, <<>>, <<>>)

Const == <<"c", "o", "n", "s", "t">>

\* re.sub(r'^const\s+', '', p)
StripConst(p) ==
    IF Len(p) > 5 /\ SubSeq(p, 1, 5) = Const /\ p[6] = SPACE
    THEN LStrip(SubSeq(p, 6, Len(p)))
    ELSE p

\* re.split(r'[:\s=]', p)[0]
RECURSIVE FirstField(_)
FirstField(p) ==
    IF p = <<>> \/ Head(p) \in {":", SPACE, "="} THEN <<>>
    ELSE <<Head(p)>> \o FirstField(Tail(p))

RECURSIVE NamesOf(_)
NamesOf(params) ==
    IF params = <<>> THEN <<>>
    ELSE LET name == FirstField(StripConst(Head(params)))
         IN  (IF name # <<>> THEN <<name>> ELSE <<>>) \o NamesOf(Tail(params))

extract_generics(sig_text) ==
    LET stripped == Strip(sig_text)
    IN  IF ~StartsWith(stripped, "<") \/ ~EndsWith(stripped, ">")
        THEN <<>>
        ELSE NamesOf(SplitTopLevel(SubSeq(stripped, 2, Len(stripped) - 1)))

----------------------------------------------------------------------------
(* File buffers as token sequences                                         *)

Tok(t, k, name, text, n) == [t |-> t, k |-> k, name |-> name, text |-> text, n |-> n]

Kinds == {"doc_params", "doc_type_params", "hm_signature"}

\* "/// ### Parameters", "/// ### Type Parameters", "/// ### Type Signature"
HeaderLen(k) ==
    IF k = "doc_params" THEN 18 ELSE IF k = "doc_type_params" THEN 23 ELSE 22

\* "use fp_macros::<k>;"
ImportLen(k) ==
    IF k = "doc_params" THEN 26 ELSE IF k = "doc_type_params" THEN 31 ELSE 28

NL == Tok("NL", "", <<>>, <<>>, 1)
Hdr(k) == Tok("Hdr", k, <<>>, <<>>, HeaderLen(k))
DocBlank == Tok("DocBlank", "", <<>>, <<>>, 3)                 \* "///"
\* "/// * `name`:raw"
Entry(name, raw) == Tok("Entry", "", name, raw, 9 + Len(name) + Len(raw))
\* "/// `forall ...`": name is the constraint's trait, <<>> if the
\* signature has no `. Trait ... =>`.
Forall(trait, n) == Tok("Forall", "", trait, <<>>, n)
Doc == Tok("Doc", "", <<>>, <<>>, 12)                          \* "/// Examples"
Comment(n) == Tok("Comment", "", <<>>, <<>>, n)                \* "// ..."
InnerDoc == Tok("InnerDoc", "", <<>>, <<>>, 13)                \* "//! Crate doc"
Shebang == Tok("Shebang", "", <<>>, <<>>, 16)                  \* "#!/usr/bin/env x"
Code == Tok("Code", "", <<>>, <<"S", ";">>, 9)                 \* "struct S;"
Fn == Tok("Fn", "", <<"f">>, <<>>, 4)                          \* "fn f"
Gen(text) == Tok("Gen", "", <<>>, text, Len(text))             \* "<...>"
Body == Tok("Body", "", <<>>, <<"(", ")", SPACE, "{", "}">>, 5)   \* "() {}"
Semi == Tok("Semi", "", <<>>, <<"(", ")", ";">>, 3)            \* "();"
Use(k) == Tok("Use", k, <<>>, <<>>, ImportLen(k))              \* the import line
\* "// use fp_macros::<k>;": the import's text inside a longer line
UseComment(k) == Tok("UseComment", k, <<>>, <<>>, ImportLen(k) + 3)
\* "#[doc_params(" / "#[doc_type_params("
AttrOpen(k) == Tok("AttrOpen", k, <<>>, <<"[", "(">>, IF k = "doc_params" THEN 13 ELSE 18)
\* "\t<payload>" and, on all lines but the last, ","
Arg(payload, last) ==
    Tok("Arg", "", <<>>, payload, 1 + Len(payload) + (IF last THEN 0 ELSE 1))
AttrClose == Tok("AttrClose", "", <<>>, <<")", "]">>, 2)       \* ")]"
\* "#[hm_signature(Trait)]"
HmAttr(trait) == Tok("HmAttr", "", trait, <<"[", "(", ")", "]">>, 17 + Len(trait))

IsNL(tok) == tok.t = "NL"

\* Text that starts a comment: what `//.*` removes, and what makes a line
\* start with "///" or "//".
IsComment(tok) ==
    tok.t \in {"Hdr", "DocBlank", "Entry", "Forall", "Doc", "Comment", "InnerDoc",
               "UseComment"}

\* Text that starts with "#[".
IsAttribute(tok) == tok.t \in {"AttrOpen", "HmAttr"}

\* re's `^` under re.MULTILINE, and the `\n` alternative of `(^|\n)`.
AtLineStart(toks, i) == i = 1 \/ IsNL(toks[i - 1])

\* str.splitlines(keepends=True)
RECURSIVE SplitLinesFrom(_, _, _, _)
SplitLinesFrom(toks, i, current, lines) ==
    IF i > Len(toks)
    THEN IF current # <<>> THEN Append(lines, current) ELSE lines
    ELSE IF IsNL(toks[i])
         THEN SplitLinesFrom(toks, i + 1, <<>>, Append(lines, Append(current, toks[i])))
         ELSE SplitLinesFrom(toks, i + 1, Append(current, toks[i]), lines)

SplitLines(toks) == SplitLinesFrom(toks, 1, <<>>, <<>>)

RECURSIVE Flatten(_)
Flatten(lines) == IF lines = <<>> THEN <<>> ELSE Head(lines) \o Flatten(Tail(lines))

\* line.strip(): a line's text without its newline
Stripped(line) ==
    IF line # <<>> /\ IsNL(line[Len(line)]) THEN SubSeq(line, 1, Len(line) - 1) ELSE line

----------------------------------------------------------------------------
(* Block Locator: the three compiled patterns                              *)

\* ((?:[ \t]*///\s*\*\s*`name`:.*\n)+): the index of the newline that ends
\* the last of the entry lines starting at j, or 0 if there is none.
RECURSIVE EntriesEnd(_, _)
EntriesEnd(toks, j) ==
    IF j + 1 <= Len(toks) /\ toks[j].t = "Entry" /\ IsNL(toks[j + 1])
    THEN LET more == EntriesEnd(toks, j + 2)
         IN  IF more = 0 THEN j + 1 ELSE more
    ELSE 0

\* The Parameters and Type Parameters patterns at i: header line, optional
\* "///" line, one or more entry lines.  The index of the last token
\* matched, or 0.
EntryBlockEnd(k, toks, i) ==
    IF /\ AtLineStart(toks, i)
       /\ i + 1 <= Len(toks)
       /\ toks[i] = Hdr(k)
       /\ IsNL(toks[i + 1])
    THEN LET j == IF i + 3 <= Len(toks) /\ toks[i + 2] = DocBlank /\ IsNL(toks[i + 3])
                  THEN i + 4 ELSE i + 2
         IN  EntriesEnd(toks, j)
    ELSE 0

\* The Type Signature pattern at i: header line, "///" line, then
\* "/// `forall ...`" up to its closing backtick (the newline is not matched).
SignatureBlockEnd(toks, i) ==
    IF /\ AtLineStart(toks, i)
       /\ i + 4 <= Len(toks)
       /\ toks[i] = Hdr("hm_signature")
       /\ IsNL(toks[i + 1])
       /\ toks[i + 2] = DocBlank
       /\ IsNL(toks[i + 3])
       /\ toks[i + 4].t = "Forall"
    THEN i + 4
    ELSE 0

MatchEnd(k, toks, i) ==
    IF k = "hm_signature" THEN SignatureBlockEnd(toks, i) ELSE EntryBlockEnd(k, toks, i)

\* The entries of the match i..e, as (name, raw description).
RECURSIVE EntriesOf(_, _, _)
EntriesOf(toks, i, e) ==
    IF i > e THEN <<>>
    ELSE (IF toks[i].t = "Entry"
          THEN <<[name |-> toks[i].name, raw |-> toks[i].text]>> ELSE <<>>)
         \o EntriesOf(toks, i + 1, e)

----------------------------------------------------------------------------
(* Declaration Scanner: the lookahead behind a match                       *)

LookaheadChars == 5000

\* content[start_idx:start_idx+5000], start_idx behind token e.  A token
\* the slice cuts in two is left out.
RECURSIVE LookaheadFrom(_, _, _)
LookaheadFrom(toks, i, room) ==
    IF i > Len(toks) \/ toks[i].n > room THEN <<>>
    ELSE <<toks[i]>> \o LookaheadFrom(toks, i + 1, room - toks[i].n)

Lookahead(toks, e) == LookaheadFrom(toks, e + 1, LookaheadChars)

\* The first line that is not blank and starts with none of "///", "#[",
\* "//"; <<>> if there is none (next_item_line = "").
RECURSIVE NextItemLineOf(_)
NextItemLineOf(lines) ==
    IF lines = <<>> THEN <<>>
    ELSE LET stripped == Stripped(Head(lines))
         IN  IF stripped = <<>> \/ IsComment(stripped[1]) \/ IsAttribute(stripped[1])
             THEN NextItemLineOf(Tail(lines))
             ELSE stripped

NextItemLine(lookahead) == NextItemLineOf(SplitLines(lookahead))

\* re.search(r'\bfn\b', line)
HasFn(line) == \E i \in 1..Len(line) : line[i].t = "Fn"

\* re.sub(r'//.*', '', lookahead): on each line, drop everything from the
\* first comment to the end of the line.
RECURSIVE NoCommentsFrom(_, _, _)
NoCommentsFrom(toks, i, inComment) ==
    IF i > Len(toks) THEN <<>>
    ELSE IF IsNL(toks[i]) THEN <<toks[i]>> \o NoCommentsFrom(toks, i + 1, FALSE)
    ELSE IF inComment \/ IsComment(toks[i]) THEN NoCommentsFrom(toks, i + 1, TRUE)
    ELSE <<toks[i]>> \o NoCommentsFrom(toks, i + 1, FALSE)

NoComments(toks) == NoCommentsFrom(toks, 1, FALSE)

\* The index of the first `fn`, or 0.
FirstFn(toks) ==
    IF \E i \in 1..Len(toks) : toks[i].t = "Fn"
    THEN CHOOSE i \in 1..Len(toks) :
             toks[i].t = "Fn" /\ \A j \in 1..(i - 1) : toks[j].t # "Fn"
    ELSE 0

\* The characters of the tokens from i on.
RECURSIVE CharsFrom(_, _)
CharsFrom(toks, i) ==
    IF i > Len(toks) THEN <<>> ELSE toks[i].text \o CharsFrom(toks, i + 1)

\* apply_doc_type_params: the generic names of the first fn of the
\* lookahead, <<>> if it has no `<` right behind its name.
GenericNamesBehind(noComments) ==
    LET f == FirstFn(noComments)
        behind == CharsFrom(noComments, f + 1)
    IN  IF f = 0 \/ f = Len(noComments) \/ noComments[f + 1].t # "Gen" THEN <<>>
        ELSE extract_generics(ScanGenerics(behind))

\* apply_hm_signature: the level loop over the text behind `fn`.  "body" if
\* it meets `{` at level 0, "decl" if it meets `;` at level 0, else "none".
RECURSIVE FindBodyFrom(_, _, _)
FindBodyFrom(chars, i, level) ==
    IF i > Len(chars) THEN "none"
    ELSE LET char == chars[i]
         IN  IF char = "{"
             THEN IF level = 0 THEN "body" ELSE FindBodyFrom(chars, i + 1, level + 1)
             ELSE IF char \in {"}", ")", "]"}
             THEN FindBodyFrom(chars, i + 1, level - 1)
             ELSE IF char \in {"(", "["}
             THEN FindBodyFrom(chars, i + 1, level + 1)
             ELSE IF char = ";" /\ level = 0 THEN "decl"
             ELSE FindBodyFrom(chars, i + 1, level)

FindBody(chars) == FindBodyFrom(chars, 1, 0)

----------------------------------------------------------------------------
(* Rewriter: replacement() of each script, pattern.sub and the import      *)

RECURSIVE ArgLines(_, _)
ArgLines(args, i) ==
    IF i > Len(args) THEN <<>>
    ELSE <<Arg(args[i], i = Len(args)), NL>> \o ArgLines(args, i + 1)

\* header line, "///", "#[<k>(", the arguments one per line, ")]": the
\* last line carries no newline.
Attribute(k, args) ==
    <<Hdr(k), NL, DocBlank, NL, AttrOpen(k), NL>> \o ArgLines(args, 1) \o <<AttrClose>>

Unmodified(toks, i, e) == SubSeq(toks, i, e)

\* The mutant looks ahead like the other two scripts: it leaves the block
\* alone unless a declaration line follows it.
replacement_doc_params_scanning(toks, i, e) ==
    LET args == DocParamsArgs(EntriesOf(toks, i, e))
    IN  IF args = <<>> \/ NextItemLine(Lookahead(toks, e)) = <<>>
        THEN Unmodified(toks, i, e)
        ELSE Attribute("doc_params", args)

\* apply_doc_params.replacement for the match i..e
replacement_doc_params(toks, i, e) ==
    LET args == DocParamsArgs(EntriesOf(toks, i, e))
    IN  IF args = <<>> THEN Unmodified(toks, i, e)
        ELSE Attribute("doc_params", args)

\* apply_doc_type_params.replacement for the match i..e
replacement_doc_type_params(toks, i, e) ==
    LET entries == EntriesOf(toks, i, e)
        lookahead == Lookahead(toks, e)
        names == GenericNamesBehind(NoComments(lookahead))
    IN  IF ~HasFn(NextItemLine(lookahead)) THEN Unmodified(toks, i, e)
        ELSE IF FirstFn(NoComments(lookahead)) = 0 THEN Unmodified(toks, i, e)
        ELSE IF names = <<>> THEN Unmodified(toks, i, e)
        ELSE Attribute("doc_type_params", Correlate(entries, names).args)

\* apply_hm_signature.replacement for the match i..e
replacement_hm_signature(toks, i, e) ==
    LET trait == toks[e].name
        lookahead == NoComments(Lookahead(toks, e))
        f == FirstFn(lookahead)
    IN  IF trait = <<>> THEN Unmodified(toks, i, e)
        ELSE IF f = 0 THEN Unmodified(toks, i, e)
        ELSE IF FindBody(CharsFrom(lookahead, f + 1)) # "body" THEN Unmodified(toks, i, e)
        ELSE <<Hdr("hm_signature"), NL, DocBlank, NL, HmAttr(trait)>>

replacement(k, toks, i, e) ==
    IF k = "doc_params" THEN replacement_doc_params(toks, i, e)
    ELSE IF k = "doc_type_params" THEN replacement_doc_type_params(toks, i, e)
    ELSE replacement_hm_signature(toks, i, e)

\* pattern.sub(replacement, content): matches are found left to right in
\* the original text and do not overlap; lookaheads read the original.
RECURSIVE SubFrom(_, _, _)
SubFrom(k, toks, i) ==
    IF i > Len(toks) THEN <<>>
    ELSE LET e == MatchEnd(k, toks, i)
         IN  IF e = 0 THEN <<toks[i]>> \o SubFrom(k, toks, i + 1)
             ELSE replacement(k, toks, i, e) \o SubFrom(k, toks, e + 1)

Sub(k, toks) == SubFrom(k, toks, 1)

\* `"use fp_macros::<k>;" in new_content`: containment of the text, as a
\* line of its own or inside a longer one.
HoldsImportText(k, tok) == tok.t \in {"Use", "UseComment"} /\ tok.k = k

ImportPresent(k, toks) == \E i \in 1..Len(toks) : HoldsImportText(k, toks[i])

\* The preamble a line belongs to: "//!", "#!" or blank.
IsPreambleLine(line) ==
    LET stripped == Stripped(line)
    IN  stripped = <<>> \/ stripped[1].t \in {"InnerDoc", "Shebang"}

RECURSIVE InsertIdx(_, _)
InsertIdx(lines, idx) ==
    IF idx < Len(lines) /\ IsPreambleLine(lines[idx + 1])
    THEN InsertIdx(lines, idx + 1)
    ELSE idx

\* lines.insert(insert_idx, import line); "".join(lines)
InsertImport(k, toks) ==
    LET lines == SplitLines(toks)
        first == IF lines # <<>> /\ lines[1][1].t = "Shebang" THEN 1 ELSE 0
        idx == InsertIdx(lines, first)
    IN  Flatten(SubSeq(lines, 1, idx)) \o <<Use(k), NL>>
            \o Flatten(SubSeq(lines, idx + 1, Len(lines)))

\* The mutant inserts the import without looking for it.
EnsureImportAlways(k, toks) == InsertImport(k, toks)

EnsureImport(k, toks) == IF ImportPresent(k, toks) THEN toks ELSE InsertImport(k, toks)

\* process_file: the new text and whether the file was written.
process_file(k, toks) ==
    LET new_content == Sub(k, toks)
    IN  IF new_content # toks
        THEN [content |-> EnsureImport(k, new_content), changed |-> TRUE]
        ELSE [content |-> toks, changed |-> FALSE]

----------------------------------------------------------------------------
(* Inputs of the block-level specifications                                *)

MaxParams == 3        \* entries of a Parameters block
MaxTypeEntries == 2   \* entries of a Type Parameters block
MaxGenerics == 3      \* generic names of the following function

ParamNames == {Self, <<"x">>, <<"y">>}
ParamRaws ==
    { <<"v">>, <<SPACE, "w", SPACE>>, <<QUOTE, "q", QUOTE>>, <<"b", BSLASH, QUOTE>> }

\* Entry names of a Type Parameters block match \w+.
TypeEntryNames == { <<"a">>, <<"A">>, <<"B">> }
GenericNames == { <<APOS, "a">>, <<"A">>, <<"B">>, <<"X">> }

\* The i-th entry's description carries the i-th mark, so a rendered
\* argument tells which entry it was rendered from.
Marks == <<"p", "q", "r", "s", "t", "u">>
TypeRaws(i) == { <<Marks[i]>>, <<SPACE, Marks[i], QUOTE>> }

BlockIdle ==
    /\ ordered_doc_params = <<>>
    /\ generic_names = <<>>
    /\ final_args = <<>>
    /\ doc_ptr = 0

ScanIdle ==
    /\ items = <<>>
    /\ after_fn_name = <<>>
    /\ generics_text = <<>>

BatchIdle ==
    /\ script = "none"
    /\ files = <<>>
    /\ next_file = 0
    /\ handled = {}
    /\ skipped = {}

BufIdle ==
    /\ kind = "none"
    /\ pieces = 0
    /\ content = <<>>
    /\ prev = <<>>
    /\ runs = 0
    /\ changed = FALSE

----------------------------------------------------------------------------
(* SpecDocParams: one Parameters block through apply_doc_params            *)

AddParamEntry ==
    /\ phase = "entries"
    /\ Len(ordered_doc_params) < MaxParams
    /\ \E name \in ParamNames, raw \in ParamRaws :
           ordered_doc_params' =
               Append(ordered_doc_params, [name |-> name, raw |-> raw])
    /\ UNCHANGED <<phase, generic_names, final_args, doc_ptr, scanVars, batchVars, bufVars>>

\* The loop of replacement() over the block's entry lines.
RenderDocParams ==
    /\ phase = "entries"
    /\ Len(ordered_doc_params) >= 1
    /\ final_args' = DocParamsArgs(ordered_doc_params)
    /\ phase' = "doc_params"
    /\ UNCHANGED <<ordered_doc_params, generic_names, doc_ptr, scanVars, batchVars, bufVars>>

InitDocParams == phase = "entries" /\ BlockIdle /\ ScanIdle /\ BatchIdle /\ BufIdle
NextDocParams == AddParamEntry \/ RenderDocParams
SpecDocParams == InitDocParams /\ [][NextDocParams]_vars

----------------------------------------------------------------------------
(* SpecTypeParams: one Type Parameters block through the correlator        *)

AddTypeEntry ==
    /\ phase = "entries"
    /\ generic_names = <<>>
    /\ Len(ordered_doc_params) < MaxTypeEntries
    /\ \E name \in TypeEntryNames,
          raw \in TypeRaws(Len(ordered_doc_params) + 1) :
           ordered_doc_params' =
               Append(ordered_doc_params, [name |-> name, raw |-> raw])
    /\ UNCHANGED <<phase, generic_names, final_args, doc_ptr, scanVars, batchVars, bufVars>>

AddGeneric ==
    /\ phase = "entries"
    /\ Len(ordered_doc_params) >= 1
    /\ Len(generic_names) < MaxGenerics
    /\ \E g \in GenericNames : generic_names' = Append(generic_names, g)
    /\ UNCHANGED <<phase, ordered_doc_params, final_args, doc_ptr, scanVars, batchVars, bufVars>>

\* `if not generic_names: return match.group(0)`, else enter the loop with
\* final_args = [] and doc_ptr = 0.
StartCorrelate ==
    /\ phase = "entries"
    /\ Len(ordered_doc_params) >= 1
    /\ Len(generic_names) >= 1
    /\ phase' = "loop"
    /\ final_args' = <<>>
    /\ doc_ptr' = 0
    /\ UNCHANGED <<ordered_doc_params, generic_names, scanVars, batchVars, bufVars>>

\* One iteration of `for g_name in generic_names`.
CorrelateNext ==
    /\ phase = "loop"
    /\ Len(final_args) < Len(generic_names)
    /\ LET r == CorrelateStep(ordered_doc_params,
                              generic_names[Len(final_args) + 1], doc_ptr)
       IN  /\ final_args' = Append(final_args, r.arg)
           /\ doc_ptr' = r.ptr
    /\ phase' = IF Len(final_args) + 1 = Len(generic_names)
                THEN "doc_type_params" ELSE "loop"
    /\ UNCHANGED <<ordered_doc_params, generic_names, scanVars, batchVars, bufVars>>

InitTypeParams == phase = "entries" /\ BlockIdle /\ ScanIdle /\ BatchIdle /\ BufIdle
NextTypeParams == AddTypeEntry \/ AddGeneric \/ StartCorrelate \/ CorrelateNext
SpecTypeParams == InitTypeParams /\ [][NextTypeParams]_vars

----------------------------------------------------------------------------
(* SpecGenerics: one function's generic list through scanner and splitter  *)

MaxItems == 3   \* generic parameters of the function

ItemNames == { <<"A">>, <<"B">>, <<APOS, "a">> }

\* Bounds as they are written in Rust: none, a trait, a lifetime, a trait
\* with nested angle brackets `I<X=V<B>>`, one with a nested comma
\* `M<K, V>`, and a closure trait with its return arrow `F(A) -> B`.
NoBound == <<>>
NestedBound == <<"I", "<", "X", "=", "V", "<", "B", ">", ">">>
CommaBound == <<"M", "<", "K", ",", SPACE, "V", ">">>
ArrowBound == <<"F", "(", "A", ")", SPACE, "-", ">", SPACE, "B">>
Bounds == { NoBound, <<"C">>, <<APOS, "b">>, NestedBound, CommaBound, ArrowBound }

Items ==
    [name : ItemNames, const : {FALSE}, bound : Bounds]
        \cup [name : {<<"N">>}, const : {TRUE}, bound : {<<"u">>}]

ItemText(it) ==
    (IF it.const THEN Const \o <<SPACE>> ELSE <<>>)
        \o it.name
        \o (IF it.bound = <<>> THEN <<>> ELSE <<":", SPACE>> \o it.bound)

RECURSIVE JoinItems(_)
JoinItems(its) ==
    IF its = <<>> THEN <<>>
    ELSE IF Len(its) = 1 THEN ItemText(its[1])
    ELSE ItemText(its[1]) \o <<",", SPACE>> \o JoinItems(Tail(its))

\* `<item, item>` as it stands behind the function's name.
GenericList(its) == <<"<">> \o JoinItems(its) \o <<">">>

\* What follows the generic list: the parameter list and the return type.
SignatureRest == <<"(", "x", ")", SPACE, "-", ">", SPACE, "R">>

AddItem ==
    /\ phase = "items"
    /\ Len(items) < MaxItems
    /\ \E it \in Items : items' = Append(items, it)
    /\ after_fn_name' = GenericList(items') \o SignatureRest
    /\ UNCHANGED <<phase, generics_text, blockVars, batchVars, bufVars>>

\* replacement(), lines 93-108: find `<` behind the name and cut the list.
ScanDeclaration ==
    /\ phase = "items"
    /\ Len(items) >= 1
    /\ generics_text' =
           IF HasGenerics(after_fn_name) THEN ScanGenerics(after_fn_name) ELSE <<>>
    /\ phase' = "scanned"
    /\ UNCHANGED <<items, after_fn_name, blockVars, batchVars, bufVars>>

\* replacement(), line 109: generic_names = extract_generics(generics_text)
ExtractGenerics ==
    /\ phase = "scanned"
    /\ generic_names' = extract_generics(generics_text)
    /\ phase' = "names"
    /\ UNCHANGED <<ordered_doc_params, final_args, doc_ptr, scanVars,
                   batchVars, bufVars>>

InitGenerics == phase = "items" /\ BlockIdle /\ ScanIdle /\ BatchIdle /\ BufIdle
NextGenerics == AddItem \/ ScanDeclaration \/ ExtractGenerics
SpecGenerics == InitGenerics /\ [][NextGenerics]_vars

DeclaredNames == [k \in 1..Len(items) |-> items[k].name]

\* C7: the scanner cuts the text from the opening `<` to its matching `>`,
\* and the splitter yields exactly one name per top-level item, in source
\* order.
DepthAwareSplitC7 ==
    phase = "names" =>
        /\ generics_text = GenericList(items)
        /\ generic_names = DeclaredNames

\* The same statement for the lists in which every `>` closes a `<`: it
\* holds there, nested brackets and nested commas included.
HasArrow == \E k \in 1..Len(items) : items[k].bound = ArrowBound
DepthAwareSplitBracketsOnly == (phase = "names" /\ ~HasArrow) => DepthAwareSplitC7

----------------------------------------------------------------------------
(* SpecBatch: main() of one script over the files the traversal yields     *)

MaxFiles == 3   \* files the traversal yields

Scripts ==
    {"apply_doc_params", "apply_doc_type_params", "apply_hm_signature",
     "migrate_hm_signature"}

\* Only migrate_hm_signature.process_file wraps its read in
\* try/except UnicodeDecodeError; the apply scripts read bare.
CatchesDecodeError(sc) == sc = "migrate_hm_signature"

InitBatch ==
    /\ phase = "files"
    /\ script \in Scripts
    /\ files = <<>>
    /\ next_file = 0
    /\ handled = {}
    /\ skipped = {}
    /\ BlockIdle /\ ScanIdle /\ BufIdle

\* The traversal finds one more .rs file, decodable as text or not.
AddFile ==
    /\ phase = "files"
    /\ Len(files) < MaxFiles
    /\ \E decodable \in BOOLEAN : files' = Append(files, [decodable |-> decodable])
    /\ UNCHANGED <<phase, script, next_file, handled, skipped,
                   blockVars, scanVars, bufVars>>

StartMain ==
    /\ phase = "files"
    /\ phase' = "main"
    /\ UNCHANGED <<batchVars, blockVars, scanVars, bufVars>>

\* process_file(path) on a file that reads as text.
ProcessReadable ==
    /\ phase = "main"
    /\ next_file < Len(files)
    /\ files[next_file + 1].decodable
    /\ next_file' = next_file + 1
    /\ handled' = handled \cup {next_file + 1}
    /\ UNCHANGED <<phase, script, files, skipped, blockVars, scanVars, bufVars>>

\* process_file(path) where f.read() raises UnicodeDecodeError and the
\* script catches it: "Skipping binary file", return.
SkipUnreadable ==
    /\ phase = "main"
    /\ next_file < Len(files)
    /\ ~files[next_file + 1].decodable
    /\ CatchesDecodeError(script)
    /\ next_file' = next_file + 1
    /\ skipped' = skipped \cup {next_file + 1}
    /\ UNCHANGED <<phase, script, files, handled, blockVars, scanVars, bufVars>>

\* The same where nothing catches it: the exception leaves process_file and
\* main(), and the interpreter exits with the remaining files unvisited.
RaiseUnreadable ==
    /\ phase = "main"
    /\ next_file < Len(files)
    /\ ~files[next_file + 1].decodable
    /\ ~CatchesDecodeError(script)
    /\ phase' = "aborted"
    /\ UNCHANGED <<batchVars, blockVars, scanVars, bufVars>>

FinishMain ==
    /\ phase = "main"
    /\ next_file = Len(files)
    /\ phase' = "finished"
    /\ UNCHANGED <<batchVars, blockVars, scanVars, bufVars>>

NextBatch ==
    \/ AddFile \/ StartMain \/ ProcessReadable \/ SkipUnreadable
    \/ RaiseUnreadable \/ FinishMain
SpecBatch == InitBatch /\ [][NextBatch]_vars

\* C8: in every script a file that cannot be decoded is skipped and every
\* other file of the batch is still processed: the run never aborts, and
\* when it ends each file has been transformed or skipped.
DecodeFailureNeverAbortsC8 ==
    /\ phase # "aborted"
    /\ phase = "finished" =>
          /\ handled = {i \in 1..Len(files) : files[i].decodable}
          /\ skipped = {i \in 1..Len(files) : ~files[i].decodable}

----------------------------------------------------------------------------
(* Spec: one file through one apply script, run after run                  *)

MaxChunks == 4   \* pieces of text the file is made of
MaxRuns == 2     \* runs of the script over the file

EntryX == Entry(<<"x">>, <<SPACE, "v">>)
EntryY == Entry(<<"y">>, <<SPACE, QUOTE, "q", QUOTE>>)
EntrySelf == Entry(Self, <<SPACE, "r">>)
EntryA == Entry(<<"A">>, <<SPACE, "p">>)
EntryB == Entry(<<"B">>, <<SPACE, "q">>)

\* "/// `forall a b. Functor f => (a -> b) -> f a -> f b`"
ForallFunctor == Forall(<<"F", "u", "n", "c", "t", "o", "r">>, 53)
\* "/// `forall a. a -> a`"
ForallPlain == Forall(<<>>, 22)

\* A long comment: with it between a block and a function, the function
\* lies near the end of the block's lookahead.
LongComment == Comment(4920)

FnLine == <<Fn, Body, NL>>                                   \* fn f() {}
FnGenericLine == <<Fn, Gen(GenericList(<<[name |-> <<"A">>, const |-> FALSE,
                                         bound |-> NestedBound]>>)), Body, NL>>
FnDeclLine == <<Fn, Semi, NL>>                               \* fn f();

Chunks(k) ==
    IF k = "doc_params"
    THEN { <<Hdr(k), NL, EntryX, NL>>,
           <<Hdr(k), NL, DocBlank, NL, EntrySelf, NL, EntryY, NL>>,
           <<Hdr(k), NL, EntrySelf, NL>>,
           FnLine,
           <<NL>> }
    ELSE IF k = "doc_type_params"
    THEN { <<Hdr(k), NL, EntryA, NL>>,
           <<Hdr(k), NL, DocBlank, NL, EntryB, NL, EntryA, NL>>,
           FnGenericLine,
           FnLine,
           <<Code, NL>>,
           <<LongComment, NL>> }
    ELSE { <<Hdr(k), NL, DocBlank, NL, ForallFunctor, NL>>,
           <<Hdr(k), NL, DocBlank, NL, ForallPlain, NL>>,
           FnLine,
           FnDeclLine,
           <<LongComment, NL>> }

Init ==
    /\ phase = "edit"
    /\ kind \in Kinds
    /\ pieces = 0
    /\ content = <<>>
    /\ prev = <<>>
    /\ runs = 0
    /\ changed = FALSE
    /\ BlockIdle /\ ScanIdle /\ BatchIdle

\* The file as it is before the first run, piece by piece.
AppendChunk ==
    /\ phase = "edit"
    /\ pieces < MaxChunks
    /\ \E c \in Chunks(kind) : content' = content \o c
    /\ pieces' = pieces + 1
    /\ UNCHANGED <<phase, kind, prev, runs, changed, blockVars, scanVars, batchVars>>

\* One run of the script on the file: process_file reads it and writes it
\* back if the text changed.
ProcessFile ==
    /\ phase \in {"edit", "noeol", "ran"}
    /\ content # <<>>
    /\ runs < MaxRuns
    /\ LET r == process_file(kind, content)
       IN  /\ content' = r.content
           /\ changed' = r.changed
    /\ prev' = content
    /\ runs' = runs + 1
    /\ phase' = "ran"
    /\ UNCHANGED <<kind, pieces, blockVars, scanVars, batchVars>>

Next == AppendChunk \/ ProcessFile
Spec == Init /\ [][Next]_vars

----------------------------------------------------------------------------
(* Claims about one block's argument list                                  *)

\* Reading a generated argument back as Rust source would: a string literal
\* runs from a double quote to the next double quote that no backslash
\* escapes.  LexArg gives "S" for each complete literal, every character
\* outside a literal as it is, and "ERR" for a literal left open.
RECURSIVE LexFrom(_, _, _, _)
LexFrom(s, i, inStr, out) ==
    IF i > Len(s) THEN (IF inStr THEN Append(out, "ERR") ELSE out)
    ELSE IF inStr
         THEN IF s[i] = BSLASH THEN LexFrom(s, i + 2, TRUE, out)
              ELSE IF s[i] = QUOTE THEN LexFrom(s, i + 1, FALSE, Append(out, "S"))
              ELSE LexFrom(s, i + 1, TRUE, out)
         ELSE IF s[i] = QUOTE THEN LexFrom(s, i + 1, TRUE, out)
              ELSE LexFrom(s, i + 1, FALSE, Append(out, s[i]))

LexArg(arg) == LexFrom(arg, 1, FALSE, <<>>)

\* The text a literal stands for: \" read back as ".
RECURSIVE Unescape(_)
Unescape(s) ==
    IF s = <<>> THEN <<>>
    ELSE IF Len(s) >= 2 /\ s[1] = BSLASH /\ s[2] = QUOTE
         THEN <<QUOTE>> \o Unescape(SubSeq(s, 3, Len(s)))
         ELSE <<Head(s)>> \o Unescape(Tail(s))

Description(e) == Strip(e.raw)

KeptEntries == {i \in 1..Len(ordered_doc_params) : ordered_doc_params[i].name # Self}
RankOfKept(i) == Cardinality({j \in KeptEntries : j <= i})

\* C3: the Parameters argument list is exactly the descriptions of the
\* entries not named self, one argument each, in source order: the k-th
\* argument is the quoted description of the k-th entry not named self.
ParamsArgsExactC3 ==
    phase = "doc_params" =>
        /\ Len(final_args) = Cardinality(KeptEntries)
        /\ \A i \in KeptEntries :
              LET a == final_args[RankOfKept(i)]
              IN  /\ Len(a) >= 2
                  /\ a[1] = QUOTE
                  /\ a[Len(a)] = QUOTE
                  /\ Unescape(SubSeq(a, 2, Len(a) - 1))
                        = Description(ordered_doc_params[i])

\* C3 witness: a block `x`, `self`, `y` with different descriptions was
\* rendered into two arguments.
ParamsArgsWitnessC3 ==
    /\ phase = "doc_params"
    /\ Len(ordered_doc_params) = 3
    /\ ordered_doc_params[1].name # Self
    /\ ordered_doc_params[2].name = Self
    /\ ordered_doc_params[3].name # Self
    /\ Description(ordered_doc_params[1]) # Description(ordered_doc_params[3])
    /\ Len(final_args) = 2

\* Argument arg was rendered from entry i (descriptions are marked by
\* position, so this identifies the entry).
RendersEntry(arg, i) ==
    LET e == ordered_doc_params[i]
    IN  arg = Quoted(Description(e)) \/ arg = Pair(e.name, Description(e))

\* C5: no step of the correlator renders an entry the cursor has already
\* advanced past (entries 1..doc_ptr before the step).
NoRevisitC5 ==
    [][(phase = "loop" /\ Len(final_args') = Len(final_args) + 1) =>
          \A i \in 1..doc_ptr : ~RendersEntry(final_args'[Len(final_args')], i)]_vars

IsLifetime(g) == StartsWithApos(g)

ReorderPrecondition ==
    /\ \A i, j \in 1..Len(ordered_doc_params) :
          i # j => ordered_doc_params[i].name # ordered_doc_params[j].name
    /\ \A k \in 1..Len(generic_names) :
          ~IsLifetime(generic_names[k]) =>
              \E i \in 1..Len(ordered_doc_params) :
                  ordered_doc_params[i].name = generic_names[k]
    /\ \A k \in 1..Len(generic_names), i \in 1..Len(ordered_doc_params) :
          IsLifetime(generic_names[k]) =>
              ordered_doc_params[i].name # LStripApos(generic_names[k])

OwnEntry(g) ==
    CHOOSE i \in 1..Len(ordered_doc_params) : ordered_doc_params[i].name = g

\* C6: with distinctly named entries, an entry for every non-lifetime
\* generic (in any order) and no entry named like a lifetime, the output
\* has one argument per generic name, in declaration order: a non-lifetime
\* generic gets its own entry's description quoted, a lifetime gets
\* "Undocumented", and no Pair is produced.
ReorderToleratedC6 ==
    (phase = "doc_type_params" /\ ReorderPrecondition) =>
        /\ Len(final_args) = Len(generic_names)
        /\ \A k \in 1..Len(generic_names) :
              final_args[k] =
                  IF IsLifetime(generic_names[k])
                  THEN Quoted(Undocumented)
                  ELSE Quoted(Description(
                           ordered_doc_params[OwnEntry(generic_names[k])]))

\* C6 witness: `A` then `B` documented above fn f<'a, B, A>.
ReorderWitnessC6 ==
    /\ phase = "doc_type_params"
    /\ ReorderPrecondition
    /\ Len(ordered_doc_params) = 2
    /\ ordered_doc_params[1].name = <<"A">>
    /\ ordered_doc_params[2].name = <<"B">>
    /\ generic_names = << <<APOS, "a">>, <<"B">>, <<"A">> >>

QuotedShape == <<"S">>
PairShape == <<"(", "S", ",", SPACE, "S", ")">>

\* C9: every generated argument reads back as one string literal (Quoted)
\* or as a parenthesised pair of two (Pair): no double quote of a
\* description ends its literal early.
PayloadEscapedC9 ==
    phase \in {"doc_params", "doc_type_params"} =>
        \A k \in 1..Len(final_args) :
            LexArg(final_args[k]) \in {QuotedShape, PairShape}

----------------------------------------------------------------------------
(* SpecImport: files with and without the import, through each script      *)

MaxImportChunks == 4   \* pieces of text the file is made of

\* A block the script rewrites, with the function it documents.
RewritableUnit(k) ==
    IF k = "doc_params" THEN <<Hdr(k), NL, EntryX, NL>> \o FnLine
    ELSE IF k = "doc_type_params" THEN <<Hdr(k), NL, EntryA, NL>> \o FnGenericLine
    ELSE <<Hdr(k), NL, DocBlank, NL, ForallFunctor, NL>> \o FnLine

ImportChunks(k) ==
    { RewritableUnit(k), <<Use(k), NL>>, <<UseComment(k), NL>>,
      <<Shebang, NL>>, <<InnerDoc, NL>>, <<NL>> }

AppendImportChunk ==
    /\ phase = "edit"
    /\ pieces < MaxImportChunks
    /\ \E c \in ImportChunks(kind) : content' = content \o c
    /\ pieces' = pieces + 1
    /\ UNCHANGED <<phase, kind, prev, runs, changed, blockVars, scanVars, batchVars>>

NextImport == AppendImportChunk \/ ProcessFile
SpecImport == Init /\ [][NextImport]_vars

----------------------------------------------------------------------------
(* SpecParams: Parameters blocks with and without a declaration behind     *)

MaxParamChunks == 3   \* pieces of text the file is made of

ParamChunks ==
    { <<Hdr("doc_params"), NL, EntryX, NL>>,
      <<Hdr("doc_params"), NL, EntrySelf, NL>>,
      <<Hdr("doc_params"), NL, DocBlank, NL, EntrySelf, NL, EntryY, NL>>,
      FnLine,
      <<Comment(10), NL>>,
      <<NL>> }

InitParams == Init /\ kind = "doc_params"

AppendParamChunk ==
    /\ phase = "edit"
    /\ pieces < MaxParamChunks
    /\ \E c \in ParamChunks : content' = content \o c
    /\ pieces' = pieces + 1
    /\ UNCHANGED <<phase, kind, prev, runs, changed, blockVars, scanVars, batchVars>>

\* The file ends without a newline.
DropFinalNewline ==
    /\ phase = "edit"
    /\ content # <<>>
    /\ content' = SubSeq(content, 1, Len(content) - 1)
    /\ phase' = "noeol"
    /\ UNCHANGED <<kind, pieces, prev, runs, changed, blockVars, scanVars, batchVars>>

NextParams == AppendParamChunk \/ DropFinalNewline \/ ProcessFile
SpecParams == InitParams /\ [][NextParams]_vars

----------------------------------------------------------------------------
(* Claims about whole files                                                *)

\* C1: running a script on its own output changes nothing: the second run
\* rewrites no block and inserts no import, T(T(B)) = T(B).
IdempotentC1 == runs = 2 => (content = prev /\ ~changed)

ImportCount(k, toks) == Cardinality({i \in 1..Len(toks) : HoldsImportText(k, toks[i])})

RewrittenBlocks(toks) ==
    Cardinality({i \in 1..Len(toks) : toks[i].t \in {"AttrClose", "HmAttr"}})

IsEntryLine(line) == Len(Stripped(line)) = 1 /\ Stripped(line)[1].t = "Entry"
IsTerminated(line) == line # <<>> /\ IsNL(line[Len(line)])

\* Blank, or a comment: no declaration.
IsNoDeclLine(line) == Stripped(line) = <<>> \/ IsComment(Stripped(line)[1])

\* The line of the block's first entry, for a Parameters header on line l.
FirstEntryLine(lines, l) ==
    IF l + 2 <= Len(lines) /\ lines[l + 1] = <<DocBlank, NL>> THEN l + 2 ELSE l + 1

\* Line l starts a Parameters block (header line, optional "///" line, an
\* entry line) that no declaration follows.
TrailingBlock(lines, l) ==
    /\ lines[l] = <<Hdr("doc_params"), NL>>
    /\ FirstEntryLine(lines, l) <= Len(lines)
    /\ IsEntryLine(lines[FirstEntryLine(lines, l)])
    /\ \A m \in (l + 1)..Len(lines) : IsNoDeclLine(lines[m])

\* The block's entry lines: the run of consecutive entry lines.
RECURSIVE LastEntryLine(_, _)
LastEntryLine(lines, j) ==
    IF j + 1 <= Len(lines) /\ IsEntryLine(lines[j + 1]) THEN LastEntryLine(lines, j + 1) ELSE j

BlockEntryLines(lines, l) ==
    FirstEntryLine(lines, l)..LastEntryLine(lines, FirstEntryLine(lines, l))

\* Some newline-terminated entry line of the block names something other
\* than self.
HasKeptEntry(lines, l) ==
    \E j \in BlockEntryLines(lines, l) :
        IsTerminated(lines[j]) /\ lines[j][1].name # Self

HeaderToks(toks) == {i \in 1..Len(toks) : toks[i].t = "Hdr"}

\* The index in the buffer of the first token of line l.
RECURSIVE LineStart(_, _)
LineStart(lines, l) == IF l = 1 THEN 1 ELSE LineStart(lines, l - 1) + Len(lines[l - 1])

\* The place in the output of the header that stands at index i of the
\* input: a run keeps every header, so it is the header with as many
\* headers behind it.
OutputHeader(inToks, i, outToks) ==
    CHOOSE o \in HeaderToks(outToks) :
        Cardinality({x \in HeaderToks(outToks) : x > o})
            = Cardinality({x \in HeaderToks(inToks) : x > i})

\* The block of input line l, header through last entry, stands in the
\* output as it stood in the input.
BlockUnmodified(inToks, l, outToks) ==
    LET inLines == SplitLines(inToks)
        i == LineStart(inLines, l)
        e == LineStart(inLines, LastEntryLine(inLines, FirstEntryLine(inLines, l)))
        o == OutputHeader(inToks, i, outToks)
    IN  /\ o + (e - i) <= Len(outToks)
        /\ SubSeq(outToks, o, o + (e - i)) = SubSeq(inToks, i, e)

\* The block of input line l stands in the output as an attribute.
BlockRewritten(inToks, l, outToks) ==
    LET o == OutputHeader(inToks, LineStart(SplitLines(inToks), l), outToks)
    IN  /\ o + 4 <= Len(outToks)
        /\ SubSeq(outToks, o + 1, o + 4) = <<NL, DocBlank, NL, AttrOpen("doc_params")>>

RECURSIVE IsSubseq(_, _)
IsSubseq(xs, ys) ==
    IF xs = <<>> THEN TRUE
    ELSE IF ys = <<>> THEN FALSE
    ELSE IF Head(xs) = Head(ys) THEN IsSubseq(Tail(xs), Tail(ys))
    ELSE IsSubseq(xs, Tail(ys))

\* The lines that belong to no block: those that are not doc comments.
OutsideLines(toks) ==
    SelectSeq(SplitLines(toks),
              LAMBDA line : Stripped(line) = <<>> \/ ~IsComment(Stripped(line)[1]))

\* C10: a rewrite of Parameters or Type Parameters blocks replaces the
\* blocks' own lines only: every line outside a block is a line of the
\* output, unchanged and in the same order, and what follows the
\* attribute's closing `)]` starts on a line of its own.
FrameC10 ==
    (runs = 1 /\ changed /\ kind \in {"doc_params", "doc_type_params"}) =>
        /\ IsSubseq(OutsideLines(prev), SplitLines(content))
        /\ \A i \in 1..(Len(content) - 1) :
              content[i].t = "AttrClose" => IsNL(content[i + 1])

====
